---- MODULE Spec2Model ----
(***************************************************************************)
(* pyTibberHueTempCommander.py: the control loop of a thermostat that      *)
(* switches one heater on and off from a temperature reading and the       *)
(* hourly electricity prices of today and tomorrow.                        *)
(*                                                                         *)
(* Units.  Time is in seconds since the epoch of the local clock           *)
(* (datetime.fromtimestamp(0) is 0).  Temperatures are the sensor's        *)
(* integer reading (1/100 degree Celsius), so the thresholds of the        *)
(* source are multiplied by 100.  Prices are integers in 1/100 of the      *)
(* smallest price step a payload uses, so that the linear interpolation    *)
(* of numpy.percentile is exact in integers.                               *)
(***************************************************************************)
EXTENDS Integers, Sequences, FiniteSets, TLC

VARIABLES
    pc,                    \* position of the main loop
    iter,                  \* iterations started so far (model bound only)
    skipSleep,             \* line 207
    now,                   \* the wall clock (datetime.now())
    currentTime,           \* line 214
    fetchNewEnergyPrices,  \* line 218
    currentTemperature,    \* line 220
    currentEnergyPrices,   \* lines 197-201: <<today row, tomorrow row>>
    priceState,            \* line 203
    lastPriceRun,          \* line 204
    thisPowerSession,      \* line 205
    plugOn,                \* the smart plug's "on" attribute (on the bridge)
    ladder,                \* this iteration's evaluation: the values of lines 237-243,
                           \* the branch of lines 245-271 taken, the state it requests
    io,                    \* what this iteration did: the state it found the table in,
                           \* the state asked of ensurePowerState, actuator read and
                           \* write, whether syslogPrice was called, the branch of lines
                           \* 154-165 that priced the session and (in SpecCost) the cost,
                           \* rotation, fetch
    response,              \* the response this iteration's fetch received (line 275)
    fetchResult,           \* how this iteration's fetch ended
    anomalyAt,             \* clock at the day-length anomaly of the last fetch (-1: none)
    rotatedOn,             \* date of the last rotation (-1: none)
    fetchFailed,           \* the provider call of the last fetch attempted raised
    rowDate                \* the calendar dates the provider gave the prices of the
                           \* today row and of the tomorrow row for (-1: none)

vars == <<pc, iter, skipSleep, now, currentTime, fetchNewEnergyPrices,
          currentTemperature, currentEnergyPrices, priceState, lastPriceRun,
          thisPowerSession, plugOn, ladder, io, response, fetchResult, anomalyAt,
          rotatedOn, fetchFailed, rowDate>>

-----------------------------------------------------------------------------
(* Bounds of the model *)

\* iterations of the while loop that the model follows
MaxIter == 3

\* iterations of the loop in the recovered environment
MaxRecoverIter == 2

-----------------------------------------------------------------------------
(* Program constants *)

minTemperatureThreshold == 200
maxTemperatureThreshold == 1000
normalMinTemperatureThreshold == 400
normalMaxTemperatureThreshold == 700
lowEnergyPricePercentileThreshold == 15
highEnergyPricePercentileThreshold == 70
HoursPerDay == 24
PublishHour == 13
LoopSleep == 151
DebounceSleep == 450
backoffSleep == 600
SecondsPerHour == 3600
radiatorPower == 1250
Epoch == 0

\* getTemperature returns None (lines 117-124): a value no reading equals
None == -100000
Hours == 0 .. (HoursPerDay - 1)
SecondsPerDay == HoursPerDay * SecondsPerHour

\* datetime.date() and datetime.hour of a clock value
DateOf(t) == t \div SecondsPerDay
HourOf(t) == (t % SecondsPerDay) \div SecondsPerHour

ZeroRow == [h \in Hours |-> 0]

-----------------------------------------------------------------------------
(* numpy.percentile(row, q), default linear interpolation *)

\* k-th smallest value (k from 0) of a row, i.e. sorted(row)[k]
KthSmallest(row, k) ==
    CHOOSE v \in {row[h] : h \in Hours} :
        /\ Cardinality({h \in Hours : row[h] < v}) <= k
        /\ k < Cardinality({h \in Hours : row[h] <= v})

\* virtual index q/100 * (n-1); the value between its two neighbours
Percentile(row, q) ==
    LET pos == q * (HoursPerDay - 1)
        lo  == pos \div 100
        hi  == IF lo + 1 < HoursPerDay THEN lo + 1 ELSE lo
        g   == pos % 100
        a   == KthSmallest(row, lo)
        b   == KthSmallest(row, hi)
    IN  a + (g * (b - a)) \div 100

-----------------------------------------------------------------------------
(* The decision ladder, lines 245-271: the branch taken and the state it   *)
(* passes to ensurePowerState                                              *)

\* the ladder with its first comparison made inclusive
Ladder_inclusive(temp, cur, nxt, low, high) ==
    IF temp <= minTemperatureThreshold THEN [rule |-> 1, state |-> TRUE]
    ELSE IF temp > maxTemperatureThreshold THEN [rule |-> 2, state |-> FALSE]
    ELSE IF cur < low THEN [rule |-> 3, state |-> TRUE]
    ELSE IF cur > high THEN [rule |-> 4, state |-> FALSE]
    ELSE IF temp < normalMinTemperatureThreshold THEN [rule |-> 5, state |-> TRUE]
    ELSE IF temp > normalMaxTemperatureThreshold THEN [rule |-> 6, state |-> FALSE]
    ELSE IF cur < nxt THEN [rule |-> 7, state |-> TRUE]
    ELSE IF cur > nxt THEN [rule |-> 8, state |-> FALSE]
    ELSE [rule |-> 9, state |-> FALSE]

\* the ladder with the price extremes tested before the absolute temperature limits
Ladder_priceFirst(temp, cur, nxt, low, high) ==
    IF cur < low THEN [rule |-> 3, state |-> TRUE]
    ELSE IF cur > high THEN [rule |-> 4, state |-> FALSE]
    ELSE IF temp < minTemperatureThreshold THEN [rule |-> 1, state |-> TRUE]
    ELSE IF temp > maxTemperatureThreshold THEN [rule |-> 2, state |-> FALSE]
    ELSE IF temp < normalMinTemperatureThreshold THEN [rule |-> 5, state |-> TRUE]
    ELSE IF temp > normalMaxTemperatureThreshold THEN [rule |-> 6, state |-> FALSE]
    ELSE IF cur < nxt THEN [rule |-> 7, state |-> TRUE]
    ELSE IF cur > nxt THEN [rule |-> 8, state |-> FALSE]
    ELSE [rule |-> 9, state |-> FALSE]

Ladder(temp, cur, nxt, low, high) ==
    IF temp < minTemperatureThreshold THEN [rule |-> 1, state |-> TRUE]
    ELSE IF temp > maxTemperatureThreshold THEN [rule |-> 2, state |-> FALSE]
    ELSE IF cur < low THEN [rule |-> 3, state |-> TRUE]
    ELSE IF cur > high THEN [rule |-> 4, state |-> FALSE]
    ELSE IF temp < normalMinTemperatureThreshold THEN [rule |-> 5, state |-> TRUE]
    ELSE IF temp > normalMaxTemperatureThreshold THEN [rule |-> 6, state |-> FALSE]
    ELSE IF cur < nxt THEN [rule |-> 7, state |-> TRUE]
    ELSE IF cur > nxt THEN [rule |-> 8, state |-> FALSE]
    ELSE [rule |-> 9, state |-> FALSE]

DirectiveOf(state) == IF state THEN "ON" ELSE "OFF"

-----------------------------------------------------------------------------
(* Price table: refresh trigger, rotation and lookups, lines 225-243 *)

\* the trigger of line 225 left out
TriggerUninitialized_never(ps) == FALSE

\* line 225
TriggerUninitialized(ps) == ps = 0

\* line 228
NeedsRotation(ps, curTime, lastRun) == ps = 2 /\ DateOf(curTime) > DateOf(lastRun)

\* a rotation that copies tomorrow into today and leaves the tomorrow row as it is
RotatedPrices_keepsTomorrow(prices) == <<prices[2], prices[2]>>

\* lines 229-231
RotatedPrices(prices) == <<prices[2], ZeroRow>>

\* lines 229-231 on the dates of the rows: the today row now holds what the
\* tomorrow row held
RotatedDates(dates) == <<dates[2], -1>>

\* line 232
RotatedState == 1

\* the trigger of line 234 taken in state 2 as well
TriggerPublished_anyDay(ps, hour) == ps >= 1 /\ hour >= PublishHour

\* line 234
TriggerPublished(ps, hour) == ps = 1 /\ hour >= PublishHour

\* the lookup of the next hour wrapping into the today row at hour 23
NextHourPrice_wraps(prices, hour) == prices[1][(hour + 1) % HoursPerDay]

\* lines 237-240
NextHourPrice(prices, hour) ==
    IF hour = HoursPerDay - 1 THEN prices[2][0] ELSE prices[1][hour + 1]

-----------------------------------------------------------------------------
(* Responses of the price provider (the environment).  A day is a JSON     *)
(* value: a list of entries, or something that is no list.  An entry is    *)
(*   "ok"       a dict {total: float, startsAt: ISO string}                *)
(*   "notDict"  fails the test of line 314                                 *)
(*   "badType"  fails the test of line 317 (e.g. total is an int or null)  *)
(*   "badIso"   startsAt is a string datetime.fromisoformat rejects        *)

Rising(h)  == 100 * (10 + h)
Falling(h) == 100 * (40 - h)

PriceAt(shape, h) == IF shape = "rising" THEN Rising(h) ELSE Falling(h)

Entry(kind, shape, i) ==
    [kind |-> kind, total |-> PriceAt(shape, (i - 1) % HoursPerDay),
     hour |-> (i - 1) % HoursPerDay]

\* a list of n entries for the hours 0, 1, ...; those at the positions bad are of kind badKind
Day(shape, n, bad, badKind) ==
    [isList |-> TRUE,
     items  |-> [i \in 1 .. n |-> Entry(IF i \in bad THEN badKind ELSE "ok", shape, i)]]

NoList == [isList |-> FALSE, items |-> << >>]
EmptyList == [isList |-> TRUE, items |-> << >>]

PriceInfo(today, tomorrow) == [kind |-> "priceInfo", today |-> today, tomorrow |-> tomorrow]

\* the fetch raises (lines 98-101), or the response has no priceInfo to index (line 276)
FetchError == [kind |-> "error", today |-> NoList, tomorrow |-> NoList]

\* priceInfo fails the test of line 277
BadShape == [kind |-> "badShape", today |-> NoList, tomorrow |-> NoList]

Responses == {"both", "todayOnly", "today23", "today25", "tomorrow23", "todayEmpty",
              "todayBad", "badIso", "badShape", "error"}

ResponseOf ==
    [id \in Responses |->
        CASE id = "both"       -> PriceInfo(Day("rising", 24, {}, "ok"), Day("falling", 24, {}, "ok"))
          [] id = "todayOnly"  -> PriceInfo(Day("falling", 24, {}, "ok"), EmptyList)
          [] id = "today23"    -> PriceInfo(Day("falling", 23, {}, "ok"), Day("rising", 24, {}, "ok"))
          [] id = "today25"    -> PriceInfo(Day("falling", 25, {}, "ok"), NoList)
          [] id = "tomorrow23" -> PriceInfo(Day("falling", 24, {}, "ok"), Day("rising", 23, {}, "ok"))
          [] id = "todayEmpty" -> PriceInfo(EmptyList, Day("rising", 24, {}, "ok"))
          [] id = "todayBad"   -> PriceInfo(Day("falling", 24, 1 .. 24, "badType"),
                                            Day("rising", 24, {2}, "notDict"))
          [] id = "badIso"     -> PriceInfo(Day("rising", 24, {}, "ok"),
                                            Day("falling", 24, {3}, "badIso"))
          [] id = "badShape"   -> BadShape
          [] OTHER             -> FetchError]

-----------------------------------------------------------------------------
(* Parsing a response, lines 277-328 *)

ListOfLen(day, n) == day.isList /\ Len(day.items) = n

\* the classification without lines 294-297: an irregular today is an anomaly only
\* next to a regular tomorrow
Classify_pairsOnly(today, tomorrow) ==
    IF ListOfLen(today, 24) /\ ListOfLen(tomorrow, 24) THEN "both"
    ELSE IF ListOfLen(today, 24) /\ ListOfLen(tomorrow, 23) THEN "today"
    ELSE IF ListOfLen(today, 24) /\ ListOfLen(tomorrow, 25) THEN "today"
    ELSE IF ListOfLen(today, 23) /\ ListOfLen(tomorrow, 24) THEN "anomaly"
    ELSE IF ListOfLen(today, 25) /\ ListOfLen(tomorrow, 24) THEN "anomaly"
    ELSE IF ListOfLen(today, 24) THEN "today"
    ELSE "parseError"

\* the classification with an irregular tomorrow taken for an anomaly too
Classify_eitherDay(today, tomorrow) ==
    IF ListOfLen(today, 24) /\ ListOfLen(tomorrow, 24) THEN "both"
    ELSE IF ListOfLen(today, 24) /\ ListOfLen(tomorrow, 23) THEN "anomaly"
    ELSE IF ListOfLen(today, 24) /\ ListOfLen(tomorrow, 25) THEN "anomaly"
    ELSE IF ListOfLen(today, 23) /\ ListOfLen(tomorrow, 24) THEN "anomaly"
    ELSE IF ListOfLen(today, 25) /\ ListOfLen(tomorrow, 24) THEN "anomaly"
    ELSE IF ListOfLen(today, 24) THEN "today"
    ELSE IF ListOfLen(today, 23) THEN "anomaly"
    ELSE IF ListOfLen(today, 25) THEN "anomaly"
    ELSE "parseError"

\* lines 282-300: what the lengths of the two days select
Classify(today, tomorrow) ==
    IF ListOfLen(today, 24) /\ ListOfLen(tomorrow, 24) THEN "both"
    ELSE IF ListOfLen(today, 24) /\ ListOfLen(tomorrow, 23) THEN "today"
    ELSE IF ListOfLen(today, 24) /\ ListOfLen(tomorrow, 25) THEN "today"
    ELSE IF ListOfLen(today, 23) /\ ListOfLen(tomorrow, 24) THEN "anomaly"
    ELSE IF ListOfLen(today, 25) /\ ListOfLen(tomorrow, 24) THEN "anomaly"
    ELSE IF ListOfLen(today, 24) THEN "today"
    ELSE IF ListOfLen(today, 23) THEN "anomaly"
    ELSE IF ListOfLen(today, 25) THEN "anomaly"
    ELSE "parseError"

\* thisObjects, lines 281-297
ThisObjects(today, tomorrow) ==
    CASE Classify(today, tomorrow) = "both"  -> <<today.items, tomorrow.items>>
      [] Classify(today, tomorrow) = "today" -> <<today.items>>
      [] OTHER -> << >>

\* The loops of lines 311-326 visit the entries of thisObjects in order and stop at
\* the first one whose startsAt makes datetime.fromisoformat raise (line 318; the
\* exception is caught in line 332).  Position of entry i of day idx in that order:
Position(objs, idx, i) == (IF idx = 2 THEN Len(objs[1]) ELSE 0) + i

Visited(objs) == UNION {{<<idx, i>> : i \in 1 .. Len(objs[idx])} : idx \in 1 .. Len(objs)}

\* the position the loops stop at: the first "badIso" entry, or past the last entry
StopAt(objs) ==
    LET bad == {Position(objs, v[1], v[2]) :
                    v \in {w \in Visited(objs) : objs[w[1]][w[2]].kind = "badIso"}}
    IN  IF bad = {} THEN Cardinality(Visited(objs)) + 1
        ELSE CHOOSE p \in bad : \A q \in bad : p <= q

\* lines 314-317: the entries of day idx that reach line 319
Written(objs, idx, stop) ==
    IF idx > Len(objs) THEN {}
    ELSE {i \in 1 .. Len(objs[idx]) :
             objs[idx][i].kind = "ok" /\ Position(objs, idx, i) < stop}

\* line 319 for day idx: per slot, whether the loops write it, and the total of the
\* last entry written to it
SlotWrites(objs, idx, stop) ==
    [h \in Hours |->
        LET at == {i \in Written(objs, idx, stop) : objs[idx][i].hour = h}
        IN  IF at = {} THEN [set |-> FALSE, total |-> 0]
            ELSE [set |-> TRUE, total |-> objs[idx][CHOOSE i \in at : \A j \in at : j <= i].total]]

\* lines 311-326: everything the loops write, for the days objs
Writes(objs) ==
    LET stop == StopAt(objs)
    IN  [slots  |-> <<SlotWrites(objs, 1, stop), SlotWrites(objs, 2, stop)>>,
         wrote  |-> <<Written(objs, 1, stop) # {}, Written(objs, 2, stop) # {}>>,
         raised |-> stop <= Cardinality(Visited(objs))]

\* what each response of the environment is parsed to: its class (lines 277-300)
\* and its writes
Parsed ==
    [id \in Responses |->
        LET r == ResponseOf[id]
        IN  [kind   |-> r.kind,
             class  |-> Classify(r.today, r.tomorrow),
             writes |-> Writes(ThisObjects(r.today, r.tomorrow))]]

\* line 319 on one row
IngestedRow(row, slots) == [h \in Hours |-> IF slots[h].set THEN slots[h].total ELSE row[h]]

\* an ingestion that writes the slots and leaves the state as it was
Ingest_stateKept(prices, lastRun, ps, w, t) ==
    [prices       |-> <<IngestedRow(prices[1], w.slots[1]), IngestedRow(prices[2], w.slots[2])>>,
     lastPriceRun |-> IF w.wrote[1] \/ w.wrote[2] THEN t ELSE lastRun,
     priceState   |-> ps,
     populated    |-> w.wrote[1] \/ w.wrote[2],
     raised       |-> w.raised]

\* lines 319-322: the table <<prices, lastRun, ps>> after the writes w in the
\* iteration of time t
Ingest(prices, lastRun, ps, w, t) ==
    [prices       |-> <<IngestedRow(prices[1], w.slots[1]), IngestedRow(prices[2], w.slots[2])>>,
     lastPriceRun |-> IF w.wrote[1] \/ w.wrote[2] THEN t ELSE lastRun,
     priceState   |-> IF w.wrote[2] THEN 2 ELSE IF w.wrote[1] THEN 1 ELSE ps,
     populated    |-> w.wrote[1] \/ w.wrote[2],
     raised       |-> w.raised]

\* line 306
AnomalyState == 0

\* the anomaly branch without its sleep
AnomalyPause_skipped(seconds) == 0

\* line 305: the time that time.sleep(seconds) takes
AnomalyPause(seconds) == seconds

\* a handler that clears the table when the provider call raises
OnFetchError_clears(prices, lastRun, ps) ==
    [prices |-> <<ZeroRow, ZeroRow>>, lastPriceRun |-> lastRun, priceState |-> 0,
     result |-> "failed", sleep |-> 0]

\* lines 332-333: the handler of an exception raised by the provider call (lines
\* 98-101) only logs
OnFetchError(prices, lastRun, ps) ==
    [prices |-> prices, lastPriceRun |-> lastRun, priceState |-> ps,
     result |-> "failed", sleep |-> 0]

\* lines 275-319 on the dates of the rows: the provider's today is the date of the
\* request, its tomorrow the date after; a row takes the date of the day written to it
FetchedDates(dates, id, date) ==
    LET r == Parsed[id]
    IN  IF r.kind = "priceInfo" /\ r.class \in {"both", "today"}
        THEN <<IF r.writes.wrote[1] THEN date ELSE dates[1],
               IF r.writes.wrote[2] THEN date + 1 ELSE dates[2]>>
        ELSE dates

\* lines 273-333: the table, the result and the pause of a fetch that received
\* the response id in the iteration of time t
FetchOutcome(prices, lastRun, ps, id, t) ==
    LET r  == Parsed[id]
        st == Ingest(prices, lastRun, ps, r.writes, t)
        same(res) == [prices |-> prices, lastPriceRun |-> lastRun, priceState |-> ps,
                      result |-> res, sleep |-> 0]
    IN  IF r.kind = "error" THEN OnFetchError(prices, lastRun, ps)
        ELSE IF r.kind = "badShape" THEN same("badShape")
        ELSE IF r.class = "parseError" THEN same("parseError")
        ELSE IF r.class = "anomaly"
             THEN [prices |-> prices, lastPriceRun |-> lastRun, priceState |-> AnomalyState,
                   result |-> "anomaly", sleep |-> AnomalyPause(backoffSleep)]
        ELSE [prices |-> st.prices, lastPriceRun |-> st.lastPriceRun,
              priceState |-> st.priceState,
              result |-> IF st.raised THEN "failed"
                         ELSE IF st.populated THEN "ingested" ELSE "nothing",
              sleep |-> 0]

-----------------------------------------------------------------------------
(* The environment *)

\* readings of the sensor, in 1/100 degree
Temps == {150, 550, 1050}

\* what the blocking calls and the sleep of an iteration may take beyond the
\* nominal time
Delays == {0, 14 * SecondsPerHour}

\* the program is started on day 1 at 23:30:00
StartTime == SecondsPerDay + 23 * SecondsPerHour + 1800

NoIo == [ps0 |-> 0, request |-> "NONE", read |-> FALSE, write |-> FALSE,
         report |-> FALSE, formula |-> "none", cost |-> -1,
         rotated |-> FALSE, fetch |-> FALSE]

NoLadder == [temp |-> None, cur |-> 0, nxt |-> 0, low |-> 0, high |-> 0,
             rule |-> 0, directive |-> "NONE"]

-----------------------------------------------------------------------------
(* The main loop *)

Init ==
    /\ pc = "top"
    /\ iter = 0
    /\ skipSleep = 0
    /\ now = StartTime
    /\ currentTime = now
    /\ fetchNewEnergyPrices = FALSE
    /\ currentTemperature = None
    /\ currentEnergyPrices = <<ZeroRow, ZeroRow>>
    /\ priceState = 0
    /\ lastPriceRun = Epoch
    /\ thisPowerSession = [powerOnTime |-> Epoch, powerOffTime |-> Epoch,
                           powerOnPrice |-> 0, powerOffPrice |-> 0,
                           startTemp |-> 0, endTemp |-> 0]
    /\ plugOn \in BOOLEAN
    /\ ladder = NoLadder
    /\ io = NoIo
    /\ response = "none"
    /\ fetchResult = "none"
    /\ anomalyAt = -1
    /\ rotatedOn = -1
    /\ fetchFailed = FALSE
    /\ rowDate = <<-1, -1>>

\* lines 209-212: the pause at the head of an iteration
HeadSleep(skip) == IF skip < 2 THEN 0 ELSE LoopSleep

\* the loop going on without a reading
AfterSensor_fallsThrough(temp) == "trigger"

\* lines 221-223: where the loop goes after the reading
AfterSensor(temp) == IF temp = None THEN "top" ELSE "trigger"

\* lines 208-223, with getTemperature (lines 103-124)
LoopHead ==
    /\ pc = "top"
    /\ iter < MaxIter
    /\ iter' = iter + 1
    /\ skipSleep' = IF skipSleep < 2 THEN skipSleep + 1 ELSE skipSleep
    /\ \E d \in Delays : now' = now + HeadSleep(skipSleep) + d
    /\ currentTime' = now'
    /\ fetchNewEnergyPrices' = FALSE
    /\ \E t \in Temps \cup {None} : currentTemperature' = t
    /\ pc' = AfterSensor(currentTemperature')
    /\ ladder' = NoLadder
    /\ io' = [NoIo EXCEPT !.ps0 = priceState]
    /\ response' = "none"
    /\ fetchResult' = "none"
    /\ UNCHANGED <<currentEnergyPrices, priceState, lastPriceRun, thisPowerSession,
                   plugOn, anomalyAt, rotatedOn, fetchFailed, rowDate>>

\* lines 225-235
RefreshTrigger ==
    LET rot == NeedsRotation(priceState, currentTime, lastPriceRun)
        ps  == IF rot THEN RotatedState ELSE priceState
    IN  /\ pc = "trigger"
        /\ currentEnergyPrices' = IF rot THEN RotatedPrices(currentEnergyPrices)
                                  ELSE currentEnergyPrices
        /\ priceState' = ps
        /\ io' = [io EXCEPT !.rotated = rot]
        /\ fetchNewEnergyPrices' = (TriggerUninitialized(priceState)
                                    \/ TriggerPublished(ps, HourOf(currentTime)))
        /\ rotatedOn' = IF rot THEN DateOf(currentTime) ELSE rotatedOn
        /\ rowDate' = IF rot THEN RotatedDates(rowDate) ELSE rowDate
        /\ pc' = "evaluate"
        /\ UNCHANGED <<iter, skipSleep, now, currentTime, currentTemperature,
                       lastPriceRun, thisPowerSession, plugOn, ladder, response,
                       fetchResult, anomalyAt, fetchFailed>>

\* lines 237-271: the lookups and the ladder, up to the call of ensurePowerState
Evaluation(temp, prices, hour) ==
    LET nxt  == NextHourPrice(prices, hour)
        cur  == prices[1][hour]
        low  == Percentile(prices[1], lowEnergyPricePercentileThreshold)
        high == Percentile(prices[1], highEnergyPricePercentileThreshold)
        out  == Ladder(temp, cur, nxt, low, high)
    IN  [temp |-> temp, cur |-> cur, nxt |-> nxt, low |-> low, high |-> high,
         rule |-> out.rule, directive |-> DirectiveOf(out.state)]

Evaluate ==
    /\ pc = "evaluate"
    /\ ladder' = Evaluation(currentTemperature, currentEnergyPrices, HourOf(currentTime))
    /\ pc' = "ensure"
    /\ UNCHANGED <<iter, skipSleep, now, currentTime, fetchNewEnergyPrices,
                   currentTemperature, currentEnergyPrices, priceState,
                   lastPriceRun, thisPowerSession, plugOn, io, response,
                   fetchResult, anomalyAt, rotatedOn, fetchFailed, rowDate>>

\* lines 140-147: the session after a transition to state at time t
SessionAfter(session, state, t, price, temp) ==
    IF state
    THEN [session EXCEPT !.powerOnTime = t, !.powerOnPrice = price, !.startTemp = temp]
    ELSE [session EXCEPT !.powerOffTime = t, !.powerOffPrice = price, !.endTemp = temp]

\* ensurePowerState writing whatever state the plug is in
NeedsWrite_always(currentPowerState, state) == TRUE

\* line 137
NeedsWrite(currentPowerState, state) == currentPowerState # state

\* lines 62-67: seconds / 3600 * radiatorPower / 1000 * price.  A cost is counted in
\* 1/(3600 * 4) of a price unit, radiatorPower / 1000 being 5/4, which keeps it in
\* the integers
estimateCost(seconds, price) == seconds * (radiatorPower \div 250) * price

\* lines 154, 156 and 163: the branch that prices a session, chosen by the hours of
\* day of powerOnTime and powerOffTime
CostFormula(session) ==
    LET onHour  == HourOf(session.powerOnTime)
        offHour == HourOf(session.powerOffTime)
    IN  IF onHour = offHour THEN "sameHour"
        ELSE IF offHour - onHour = 1 \/ offHour - onHour = -23 THEN "split"
        ELSE "mean"

\* the session split at the start of the clock hour of powerOnTime
interimTimestamp_ofOn(session) ==
    session.powerOnTime - (session.powerOnTime % SecondsPerHour)

\* line 157: the start of the clock hour of powerOffTime
interimTimestamp(session) ==
    session.powerOffTime - (session.powerOffTime % SecondsPerHour)

\* lines 148-165: sessionCost of a session that was switched off.  Prices are even numbers, so the
\* mean of line 164 is exact
SessionCost(session) ==
    LET on  == session.powerOnTime
        off == session.powerOffTime
        elapsedSeconds == off - on
    IN  CASE CostFormula(session) = "sameHour" ->
               estimateCost(elapsedSeconds, session.powerOffPrice)
          [] CostFormula(session) = "split" ->
               estimateCost(interimTimestamp(session) - on, session.powerOnPrice)
               + estimateCost(off - interimTimestamp(session), session.powerOffPrice)
          [] OTHER ->
               estimateCost(elapsedSeconds,
                            (session.powerOffPrice + session.powerOnPrice) \div 2)

\* lines 144, 153 and 166: syslogPrice is called, with SessionCost(session), after a
\* transition to off of a session that was switched on
Reports(session, state) == ~state /\ session.powerOnTime # Epoch

\* a pause after switching off only
DebouncePause_offOnly(state) == IF state THEN 0 ELSE DebounceSleep

\* line 167
DebouncePause(state) == DebounceSleep

\* lines 126-174.  outcome: "ok", or the bridge raises before the state is read
\* ("readFails"), or in set_light ("writeFails": the plug may or may not have switched).
\* The plug starts on or off, and a failed write is how it comes to differ from what
\* the session records.
EnsurePowerState ==
    LET state == (ladder.directive = "ON")
    IN  /\ pc = "ensure"
        /\ \E outcome \in {"ok", "readFails", "writeFails"} :
              IF outcome = "readFails"
              THEN /\ io' = [io EXCEPT !.request = ladder.directive]
                   /\ UNCHANGED <<plugOn, thisPowerSession, now>>
              ELSE IF ~NeedsWrite(plugOn, state)
              THEN /\ outcome = "ok"
                   /\ io' = [io EXCEPT !.request = ladder.directive, !.read = TRUE]
                   /\ UNCHANGED <<plugOn, thisPowerSession, now>>
              ELSE IF outcome = "writeFails"
              THEN /\ io' = [io EXCEPT !.request = ladder.directive, !.read = TRUE]
                   /\ plugOn' \in BOOLEAN
                   /\ UNCHANGED <<thisPowerSession, now>>
              ELSE /\ plugOn' = state
                   /\ thisPowerSession' = SessionAfter(thisPowerSession, state, now,
                                                       ladder.cur, currentTemperature)
                   /\ io' = [io EXCEPT !.request = ladder.directive, !.read = TRUE,
                                       !.write = TRUE,
                                       !.report = Reports(thisPowerSession', state),
                                       !.formula = IF Reports(thisPowerSession', state)
                                                   THEN CostFormula(thisPowerSession')
                                                   ELSE "none"]
                   /\ now' = now + DebouncePause(state)
        /\ pc' = "fetch"
        /\ UNCHANGED <<iter, skipSleep, currentTime, fetchNewEnergyPrices,
                       currentTemperature, currentEnergyPrices, priceState,
                       lastPriceRun, ladder, response, fetchResult, anomalyAt,
                       rotatedOn, fetchFailed, rowDate>>

\* line 273, fetchNewEnergyPrices false
NoFetch ==
    /\ pc = "fetch"
    /\ ~fetchNewEnergyPrices
    /\ pc' = "top"
    /\ UNCHANGED <<iter, skipSleep, now, currentTime, fetchNewEnergyPrices,
                   currentTemperature, currentEnergyPrices, priceState, lastPriceRun,
                   thisPowerSession, plugOn, ladder, io, response, fetchResult,
                   anomalyAt, rotatedOn, fetchFailed, rowDate>>

\* a loop that an exception of the fetch or of the ingestion ends
AfterFetch_uncaught(result) == IF result = "failed" THEN "stopped" ELSE "top"

\* lines 300, 307 and 332-333: a parse error and an anomaly continue, an exception is
\* caught and logged; every fetch is followed by the next iteration
AfterFetch(result) == "top"

\* lines 273-333, with getTodayAndTomorrowEnergyPrices (lines 77-101)
FetchPrices ==
    /\ pc = "fetch"
    /\ fetchNewEnergyPrices
    /\ \E id \in Responses :
          LET o == FetchOutcome(currentEnergyPrices, lastPriceRun, priceState, id,
                                currentTime)
          IN  /\ response' = id
              /\ currentEnergyPrices' = o.prices
              /\ lastPriceRun' = o.lastPriceRun
              /\ priceState' = o.priceState
              /\ fetchResult' = o.result
              /\ now' = now + o.sleep
              /\ anomalyAt' = IF o.result = "anomaly" THEN now ELSE -1
              /\ fetchFailed' = (Parsed[id].kind = "error")
              /\ rowDate' = FetchedDates(rowDate, id, DateOf(now))
    /\ io' = [io EXCEPT !.fetch = TRUE]
    /\ pc' = AfterFetch(fetchResult')
    /\ UNCHANGED <<iter, skipSleep, currentTime, fetchNewEnergyPrices,
                   currentTemperature, thisPowerSession, plugOn, ladder, rotatedOn>>

Next ==
    \/ LoopHead
    \/ RefreshTrigger
    \/ Evaluate
    \/ EnsurePowerState
    \/ NoFetch
    \/ FetchPrices

Spec == Init /\ [][Next]_vars

-----------------------------------------------------------------------------
(* The ladder alone, on every combination of a temperature around the four *)
(* thresholds with a current price, a next price and two percentiles that  *)
(* are below, at and above one another                                     *)

LadderTemps == {199, 200, 201, 399, 400, 401, 699, 700, 701, 999, 1000, 1001}
LadderPrices == {100, 200, 300}

InitLadder ==
    /\ pc = "ladder"
    /\ iter = 0
    /\ skipSleep = 0
    /\ now = StartTime
    /\ currentTime = StartTime
    /\ fetchNewEnergyPrices = FALSE
    /\ currentTemperature \in LadderTemps
    /\ currentEnergyPrices = <<ZeroRow, ZeroRow>>
    /\ priceState = 0
    /\ lastPriceRun = Epoch
    /\ thisPowerSession = [powerOnTime |-> Epoch, powerOffTime |-> Epoch,
                           powerOnPrice |-> 0, powerOffPrice |-> 0,
                           startTemp |-> 0, endTemp |-> 0]
    /\ plugOn = FALSE
    /\ \E cur \in LadderPrices, nxt \in LadderPrices, low \in LadderPrices,
          high \in LadderPrices :
          ladder = [temp |-> currentTemperature, cur |-> cur, nxt |-> nxt, low |-> low,
                    high |-> high, rule |-> 0, directive |-> "NONE"]
    /\ io = NoIo
    /\ response = "none"
    /\ fetchResult = "none"
    /\ anomalyAt = -1
    /\ rotatedOn = -1
    /\ fetchFailed = FALSE
    /\ rowDate = <<-1, -1>>

\* lines 245-271 on the values in ladder
Decide ==
    LET out == Ladder(ladder.temp, ladder.cur, ladder.nxt, ladder.low, ladder.high)
    IN  /\ pc = "ladder"
        /\ ladder' = [ladder EXCEPT !.rule = out.rule, !.directive = DirectiveOf(out.state)]
        /\ pc' = "decided"
        /\ UNCHANGED <<iter, skipSleep, now, currentTime, fetchNewEnergyPrices,
                       currentTemperature, currentEnergyPrices, priceState,
                       lastPriceRun, thisPowerSession, plugOn, io, response,
                       fetchResult, anomalyAt, rotatedOn, fetchFailed, rowDate>>

SpecLadder == InitLadder /\ [][Decide]_vars

-----------------------------------------------------------------------------
(* The cost of a session alone, lines 148-166, on sessions switched on at   *)
(* and around an hour boundary and switched off from one debounce pause to *)
(* more than two days later                                                *)

Minute == 60

\* powerOnTime: day 1 at 10:15:00, 10:45:00, 10:59:59 and 23:50:00
OnTimes == {SecondsPerDay + 10 * SecondsPerHour + 15 * Minute,
            SecondsPerDay + 10 * SecondsPerHour + 45 * Minute,
            SecondsPerDay + 11 * SecondsPerHour - 1,
            SecondsPerDay + 23 * SecondsPerHour + 50 * Minute}

\* powerOffTime - powerOnTime: no transition follows another sooner than the pause of
\* line 167
Durations == {DebounceSleep, 20 * Minute, 30 * Minute, SecondsPerHour,
              SecondsPerHour + 20 * Minute, 2 * SecondsPerHour,
              3 * SecondsPerHour + 30 * Minute,
              SecondsPerDay - 10 * Minute, SecondsPerDay + 5 * Minute,
              SecondsPerDay + 30 * Minute, SecondsPerDay + 2 * SecondsPerHour,
              2 * SecondsPerDay + 40 * Minute}

\* prices at the two transitions, in 1/100 of the currency unit
CostPrices == {20, 40, 60}

InitCost ==
    /\ pc = "cost"
    /\ iter = 0
    /\ skipSleep = 0
    /\ \E on \in OnTimes \cup {Epoch}, d \in Durations, p \in CostPrices, q \in CostPrices :
          /\ thisPowerSession = [powerOnTime |-> on,
                                 powerOffTime |-> IF on = Epoch THEN StartTime ELSE on + d,
                                 powerOnPrice |-> IF on = Epoch THEN 0 ELSE p,
                                 powerOffPrice |-> q,
                                 startTemp |-> 0, endTemp |-> 0]
          /\ now = thisPowerSession.powerOffTime
    /\ currentTime = now
    /\ fetchNewEnergyPrices = FALSE
    /\ currentTemperature = None
    /\ currentEnergyPrices = <<ZeroRow, ZeroRow>>
    /\ priceState = 0
    /\ lastPriceRun = Epoch
    /\ plugOn = FALSE
    /\ ladder = NoLadder
    /\ io = NoIo
    /\ response = "none"
    /\ fetchResult = "none"
    /\ anomalyAt = -1
    /\ rotatedOn = -1
    /\ fetchFailed = FALSE
    /\ rowDate = <<-1, -1>>

\* lines 148-166 on the session: the branch, the cost, the call of syslogPrice
ReportCost ==
    /\ pc = "cost"
    /\ io' = IF Reports(thisPowerSession, FALSE)
             THEN [io EXCEPT !.report = TRUE,
                             !.formula = CostFormula(thisPowerSession),
                             !.cost = SessionCost(thisPowerSession)]
             ELSE io
    /\ pc' = "reported"
    /\ UNCHANGED <<iter, skipSleep, now, currentTime, fetchNewEnergyPrices,
                   currentTemperature, currentEnergyPrices, priceState,
                   lastPriceRun, thisPowerSession, plugOn, ladder, response,
                   fetchResult, anomalyAt, rotatedOn, fetchFailed, rowDate>>

SpecCost == InitCost /\ [][ReportCost]_vars

-----------------------------------------------------------------------------
(* The loop in an environment that has recovered: the sensor answers every *)
(* reading, and every response of the provider has 24 well-formed entries  *)
(* for today.  The loop is a sequential program that always runs its next  *)
(* statement, hence the weak fairness of its steps.                        *)

RowOf(shape) == [h \in Hours |-> PriceAt(shape, h)]

GoodResponses ==
    {id \in Responses :
        /\ ResponseOf[id].kind = "priceInfo"
        /\ ListOfLen(ResponseOf[id].today, 24)
        /\ \A i \in 1 .. 24 : ResponseOf[id].today.items[i].kind = "ok"}

\* the program at startup, or at the head of the loop after an anomaly that put the
\* state to 0 over the rows of an earlier ingestion
InitRecover ==
    /\ pc = "top"
    /\ iter = 0
    /\ now = StartTime
    /\ currentTime = now
    /\ fetchNewEnergyPrices = FALSE
    /\ currentTemperature = None
    /\ priceState = 0
    /\ \/ /\ skipSleep = 0
          /\ currentEnergyPrices = <<ZeroRow, ZeroRow>>
          /\ lastPriceRun = Epoch
          /\ anomalyAt = -1
          /\ rowDate = <<-1, -1>>
       \/ /\ skipSleep = 2
          /\ currentEnergyPrices = <<RowOf("rising"), ZeroRow>>
          /\ lastPriceRun = StartTime - SecondsPerDay
          /\ anomalyAt = StartTime - backoffSleep
          /\ rowDate = <<DateOf(StartTime) - 1, -1>>
    /\ thisPowerSession = [powerOnTime |-> Epoch, powerOffTime |-> Epoch,
                           powerOnPrice |-> 0, powerOffPrice |-> 0,
                           startTemp |-> 0, endTemp |-> 0]
    /\ plugOn \in BOOLEAN
    /\ ladder = NoLadder
    /\ io = NoIo
    /\ response = "none"
    /\ fetchResult = "none"
    /\ rotatedOn = -1
    /\ fetchFailed = FALSE

\* lines 208-223 when getTemperature returns a reading
LoopHeadGood == iter < MaxRecoverIter /\ LoopHead /\ currentTemperature' # None

\* lines 273-333 when the provider returns a full today
FetchPricesGood == FetchPrices /\ response' \in GoodResponses

NextRecover ==
    \/ LoopHeadGood
    \/ RefreshTrigger
    \/ Evaluate
    \/ EnsurePowerState
    \/ NoFetch
    \/ FetchPricesGood

SpecRecover == InitRecover /\ [][NextRecover]_vars /\ WF_vars(NextRecover)

-----------------------------------------------------------------------------
(* The loop with a plug that someone other than the program switches too:  *)
(* the bridge holds the plug's state, ensurePowerState reads it at line    *)
(* 136, and the Hue app or a wall switch may have changed it since the     *)
(* last iteration.  The table is in state 2 with the prices of both days   *)
(* and the iterations follow one another without a long delay, so that no  *)
(* fetch is requested.                                                     *)

InitSession ==
    /\ pc = "top"
    /\ iter = 0
    /\ skipSleep = 2
    /\ now = StartTime
    /\ currentTime = now
    /\ fetchNewEnergyPrices = FALSE
    /\ currentTemperature = None
    /\ currentEnergyPrices = <<RowOf("rising"), RowOf("falling")>>
    /\ priceState = 2
    /\ lastPriceRun = StartTime - LoopSleep
    /\ thisPowerSession = [powerOnTime |-> Epoch, powerOffTime |-> Epoch,
                           powerOnPrice |-> 0, powerOffPrice |-> 0,
                           startTemp |-> 0, endTemp |-> 0]
    /\ plugOn \in BOOLEAN
    /\ ladder = NoLadder
    /\ io = NoIo
    /\ response = "none"
    /\ fetchResult = "none"
    /\ anomalyAt = -1
    /\ rotatedOn = -1
    /\ fetchFailed = FALSE
    /\ rowDate = <<DateOf(StartTime), DateOf(StartTime) + 1>>

\* lines 208-223 when the sleep and the reading take their nominal time
LoopHeadPrompt == LoopHead /\ now' = now + HeadSleep(skipSleep)

\* the plug is switched at the bridge by someone else, between two iterations
OtherSwitch ==
    /\ pc = "top"
    /\ plugOn' = ~plugOn
    /\ UNCHANGED <<pc, iter, skipSleep, now, currentTime, fetchNewEnergyPrices,
                   currentTemperature, currentEnergyPrices, priceState, lastPriceRun,
                   thisPowerSession, ladder, io, response, fetchResult, anomalyAt,
                   rotatedOn, fetchFailed, rowDate>>

NextSession ==
    \/ LoopHeadPrompt
    \/ RefreshTrigger
    \/ Evaluate
    \/ EnsurePowerState
    \/ NoFetch
    \/ OtherSwitch

SpecSession == InitSession /\ [][NextSession]_vars

-----------------------------------------------------------------------------
(* Claims *)

today == currentEnergyPrices[1]
tomorrow == currentEnergyPrices[2]
currentHour == HourOf(currentTime)
currentDate == DateOf(currentTime)

\* an iteration has run to its end, and the loop is back at its head
IterationDone == pc = "top" /\ iter > 0

\* The nine rules as the specification lists them: the condition of rule i on an
\* evaluation l, and the directive of rule i
RuleCond(i, l) ==
    CASE i = 1 -> l.temp < minTemperatureThreshold
      [] i = 2 -> l.temp > maxTemperatureThreshold
      [] i = 3 -> l.cur < l.low
      [] i = 4 -> l.cur > l.high
      [] i = 5 -> l.temp < normalMinTemperatureThreshold
      [] i = 6 -> l.temp > normalMaxTemperatureThreshold
      [] i = 7 -> l.cur < l.nxt
      [] i = 8 -> l.cur > l.nxt
      [] OTHER -> TRUE

RuleDirective(i) == IF i \in {1, 3, 5, 7} THEN "ON" ELSE "OFF"

FirstRule(l) == CHOOSE i \in 1 .. 9 : RuleCond(i, l) /\ \A j \in 1 .. (i - 1) : ~RuleCond(j, l)

\* a value equal to its threshold does not fire the rule of that threshold
StrictAt(l) ==
    /\ l.temp = minTemperatureThreshold => l.rule # 1
    /\ l.temp = maxTemperatureThreshold => l.rule # 2
    /\ l.cur = l.low => l.rule # 3
    /\ l.cur = l.high => l.rule # 4
    /\ l.temp = normalMinTemperatureThreshold => l.rule # 5
    /\ l.temp = normalMaxTemperatureThreshold => l.rule # 6
    /\ l.cur = l.nxt => l.rule \notin {7, 8}

\* C1: an evaluation takes the branch of the first rule, in the order 1..9, whose
\* condition is true, and requests that rule's directive, which is ON or OFF; the
\* comparisons are strict, so a value equal to its threshold falls through, down to
\* OFF by rule 9.
C1_FirstRuleWins ==
    ladder.rule # 0 =>
        /\ ladder.rule = FirstRule(ladder)
        /\ ladder.directive = RuleDirective(ladder.rule)
        /\ ladder.directive \in {"ON", "OFF"}
        /\ StrictAt(ladder)

\* every value sits on its threshold, and the evaluation ends in rule 9
C1_Witness ==
    /\ ladder.rule = 9
    /\ ladder.directive = "OFF"
    /\ ladder.temp = normalMinTemperatureThreshold
    /\ ladder.cur = ladder.low
    /\ ladder.cur = ladder.high
    /\ ladder.cur = ladder.nxt

\* C2: whatever the prices, the table and the session, a reading below the absolute
\* minimum makes the iteration ask the actuator for ON, and a reading above the
\* absolute maximum for OFF.
C2_AbsoluteLimits ==
    /\ pc \in {"trigger", "evaluate", "ensure"} => io.request = "NONE"
    /\ (pc = "fetch" \/ (IterationDone /\ currentTemperature # None)) =>
          /\ io.request \in {"ON", "OFF"}
          /\ currentTemperature < minTemperatureThreshold => io.request = "ON"
          /\ currentTemperature > maxTemperatureThreshold => io.request = "OFF"

\* ON is asked for below the minimum although the price is above the high percentile
C2_Witness ==
    /\ pc = "fetch"
    /\ currentTemperature < minTemperatureThreshold
    /\ io.request = "ON"
    /\ ladder.cur > ladder.high
    /\ priceState = 2

\* C3: a rotation, which an iteration performs when the state is 2 and its date is
\* later than the date of lastPriceRun, leaves today = the old tomorrow row, tomorrow
\* = 24 zeros and state 1; no earlier rotation was made on that date, so a further
\* iteration on the date of a rotation changes neither row.
C3_Rotation ==
    [][(pc = "trigger" /\ pc' = "evaluate") =>
          /\ IF priceState = 2 /\ currentDate > DateOf(lastPriceRun)
             THEN /\ today' = tomorrow
                  /\ tomorrow' = ZeroRow
                  /\ priceState' = 1
                  /\ io'.rotated
                  /\ rotatedOn < currentDate
             ELSE /\ UNCHANGED <<currentEnergyPrices, priceState>>
                  /\ ~io'.rotated
          /\ rotatedOn = currentDate => UNCHANGED <<currentEnergyPrices, priceState>>]_vars

\* an iteration on the date of an earlier rotation has passed the rotation test
\* without rotating, today still being the row that was rotated in
C3_Witness ==
    /\ pc = "evaluate"
    /\ rotatedOn = currentDate
    /\ ~io.rotated
    /\ today = [h \in Hours |-> Falling(h)]
    /\ tomorrow = ZeroRow

\* C4: the next-hour price of an evaluation at hour 23 is tomorrow[0] in state 2 and
\* 0 otherwise; the tomorrow row is all zeros whenever the state is 0 or 1.
C4_NextHourAtMidnight ==
    /\ priceState \in {0, 1} => tomorrow = ZeroRow
    /\ (pc = "ensure" /\ currentHour = 23) =>
          ladder.nxt = IF priceState = 2 THEN tomorrow[0] ELSE 0

\* an evaluation at hour 23 in state 2 that read a price from the tomorrow row
C4_Witness ==
    /\ pc = "ensure"
    /\ currentHour = 23
    /\ priceState = 2
    /\ ladder.nxt = tomorrow[0]
    /\ ladder.nxt # 0
    /\ ladder.nxt # today[0]

\* shapes a day of a response can have: no list, or a list of 0 to 26 entries
ListOf(n) == Day("rising", n, {}, "ok")
DayShapes == {NoList} \cup {ListOf(n) : n \in 0 .. 26}

TodayLen(id) == IF ResponseOf[id].today.isList THEN Len(ResponseOf[id].today.items) ELSE -1

\* the step in which the fetch of an iteration receives a priceInfo of two days
FetchStep == pc = "fetch" /\ io'.fetch /\ ResponseOf[response'].kind = "priceInfo"

\* whatever tomorrow is, a today list of 23 or 25 entries is classified an anomaly
IrregularTodayIsAnomaly ==
    \A n \in {23, 25} : \A d \in DayShapes : Classify(ListOf(n), d) = "anomaly"

\* C5: a fetch whose today list has 23 or 25 entries ends as an anomaly and leaves
\* the today row, the tomorrow row and lastPriceRun as they were.
C5_IrregularTodayRejected ==
    [][/\ IrregularTodayIsAnomaly
       /\ (FetchStep /\ TodayLen(response') \in {23, 25}) =>
             /\ fetchResult' = "anomaly"
             /\ UNCHANGED <<currentEnergyPrices, lastPriceRun>>]_vars

\* a today list of 25 entries was rejected with a populated table left as it was
C5_Witness ==
    /\ IterationDone
    /\ response = "today25"
    /\ fetchResult = "anomaly"
    /\ today # ZeroRow
    /\ lastPriceRun # Epoch

\* a priceInfo one of whose days has a length other than 24
Irregular(id) ==
    LET r == ResponseOf[id]
    IN  \/ ~ListOfLen(r.today, 24)
        \/ ListOfLen(r.tomorrow, 23)
        \/ ListOfLen(r.tomorrow, 25)

ClassesByShape ==
    \A d \in DayShapes :
        /\ \A n \in {23, 25} : Classify(ListOf(n), d) = "anomaly"
        /\ d # ListOf(24) => Classify(ListOf(24), d) = "today"
        /\ Classify(ListOf(24), ListOf(24)) = "both"
        /\ \A t \in DayShapes \ {ListOf(23), ListOf(24), ListOf(25)} :
              Classify(t, d) = "parseError"

C7_BackoffBeforeNextFetch ==
    /\ fetchResult = "anomaly" => anomalyAt >= 0
    /\ anomalyAt >= 0 =>
          /\ priceState = 0
          /\ now >= anomalyAt + backoffSleep

\* the fetch after an anomaly is about to be attempted
C7_Witness ==
    /\ pc = "fetch"
    /\ fetchNewEnergyPrices
    /\ anomalyAt >= 0
    /\ now >= anomalyAt + backoffSleep

\* C8: a fetch is attempted only in an iteration that asked for it, and an iteration
\* asks for it only when the state is 0, or is 1 (after any rotation) with hour >= 13:
\* never in state 2, never in state 1 before 13.
C8_FetchOnlyWhenTriggered ==
    /\ io.fetch => fetchNewEnergyPrices
    /\ (pc \in {"evaluate", "ensure", "fetch"} /\ fetchNewEnergyPrices) =>
          \/ priceState = 0
          \/ priceState = 1 /\ currentHour >= 13

\* a fetch was attempted in state 1 at an hour from 13 on
C8_Witness ==
    /\ IterationDone
    /\ io.fetch
    /\ io.ps0 = 1
    /\ currentHour >= 13

\* the state of the table after the rotation test of the iteration
StateAfterRotation == IF io.rotated THEN 1 ELSE io.ps0

\* the refresh trigger held in the iteration
TriggerHeld == io.ps0 = 0 \/ (StateAfterRotation = 1 /\ currentHour >= 13)

\* C9 as claimed: every iteration that begins in state 0, or has the table in state 1
\* with hour >= 13, attempts a fetch.
C9_FetchInEveryTriggeredIteration == (IterationDone /\ TriggerHeld) => io.fetch

\* C9 amended: every such iteration in which the sensor reading succeeds attempts a
\* fetch; an iteration whose reading is unavailable attempts none.
C9_FetchWhenSensed ==
    /\ (IterationDone /\ currentTemperature # None /\ TriggerHeld) => io.fetch
    /\ (IterationDone /\ currentTemperature = None) => ~io.fetch

\* an iteration with a reading, in state 1 at an hour from 13 on, has fetched
C9_Witness ==
    /\ IterationDone
    /\ currentTemperature # None
    /\ io.ps0 = 1
    /\ ~io.rotated
    /\ currentHour >= 13
    /\ io.fetch

\* C10: an iteration whose sensor reading is unavailable goes straight back to the
\* head of the loop: it asks nothing of the actuator, neither reads nor writes it,
\* does not rotate, does not fetch, and leaves the price rows, the state,
\* lastPriceRun, the session and the plug as they were.
C10_SensorUnavailable ==
    [][currentTemperature' = None =>
          /\ pc' = "top"
          /\ io'.request = "NONE"
          /\ ~io'.read /\ ~io'.write /\ ~io'.rotated /\ ~io'.fetch
          /\ UNCHANGED <<currentEnergyPrices, priceState, lastPriceRun,
                         thisPowerSession, plugOn>>]_vars

\* an iteration without a reading has ended with a populated table and a session in
\* progress left as they were
C10_Witness ==
    /\ IterationDone
    /\ currentTemperature = None
    /\ iter >= 2
    /\ priceState = 2
    /\ thisPowerSession.powerOnTime # Epoch

\* C11: a fetch whose provider call raises leaves the today row, the tomorrow row,
\* the state and lastPriceRun as they were; the evaluation of the iterations after it
\* reads its prices and percentiles from that table; the trigger of those iterations
\* is what the state and the hour make it, and an iteration after the failure in
\* which the trigger holds attempts the fetch again.
C11_FailedFetchKeepsTable ==
    [][/\ (pc = "fetch" /\ io'.fetch /\ ResponseOf[response'].kind = "error") =>
             /\ UNCHANGED <<currentEnergyPrices, priceState, lastPriceRun>>
             /\ fetchFailed'
       /\ (fetchFailed /\ pc = "trigger") =>
             fetchNewEnergyPrices' = (priceState = 0 \/ (priceState' = 1 /\ currentHour >= 13))
       /\ (fetchFailed /\ pc = "evaluate") =>
             /\ ladder'.cur = today[currentHour]
             /\ ladder'.low = Percentile(today, 15)
             /\ ladder'.high = Percentile(today, 70)
       /\ (fetchFailed /\ pc = "fetch" /\ fetchNewEnergyPrices) => io'.fetch]_vars

\* after a failed fetch that left a populated table, the next iteration has evaluated
\* on the prices kept and is about to fetch again
C11_Witness ==
    /\ pc = "fetch"
    /\ fetchFailed
    /\ fetchNewEnergyPrices
    /\ priceState = 1
    /\ today = [h \in Hours |-> Falling(h)]
    /\ ladder.cur = today[currentHour]
    /\ ladder.cur # 0

\* C12: a call of ensurePowerState that reads the plug in the state it is asked for
\* writes nothing to the actuator, leaves every field of the session unchanged, does
\* not call syslogPrice and takes no debounce pause.
C12_NoOpDirective ==
    [][(pc = "ensure" /\ io'.read /\ plugOn = (ladder.directive = "ON")) =>
          /\ ~io'.write
          /\ ~io'.report
          /\ UNCHANGED <<thisPowerSession, plugOn, now>>]_vars

\* in a session switched on earlier, ON was asked again of a plug that is on
C12_Witness ==
    /\ pc = "fetch"
    /\ iter >= 2
    /\ io.request = "ON"
    /\ io.read
    /\ ~io.write
    /\ plugOn
    /\ thisPowerSession.powerOnTime # Epoch
    /\ now = currentTime

\* a session whose cost was reported, and what the claims say of it
ReportedSession == pc = "reported" /\ io.report
onTime == thisPowerSession.powerOnTime
offTime == thisPowerSession.powerOffTime
elapsed == offTime - onTime
HourGap == HourOf(offTime) - HourOf(onTime)

\* hour boundaries between the two transitions
BoundariesCrossed == offTime \div SecondsPerHour - onTime \div SecondsPerHour

\* the hour boundary that follows the transition to ON
BoundaryAfterOn == onTime - (onTime % SecondsPerHour) + SecondsPerHour

StartOfOffHour == offTime - (offTime % SecondsPerHour)

C14_MeanBeyondOneBoundary ==
    ReportedSession =>
        /\ BoundariesCrossed >= 2 =>
              /\ io.formula = "mean"
              /\ io.cost = estimateCost(elapsed, (thisPowerSession.powerOnPrice
                                                  + thisPowerSession.powerOffPrice) \div 2)
        /\ io.formula = "sameHour" => BoundariesCrossed = 0

\* a session of a day and five minutes, switched off in the hour of day it was switched
\* on in, was costed by the same-hour formula
C14_Witness ==
    /\ ReportedSession
    /\ elapsed = SecondsPerDay + 5 * Minute
    /\ BoundariesCrossed >= 24
    /\ io.formula = "sameHour"
    /\ io.cost = estimateCost(elapsed, thisPowerSession.powerOffPrice)
    /\ thisPowerSession.powerOnPrice # thisPowerSession.powerOffPrice

\* a call of ensurePowerState that switches the plug
WriteStep == pc = "ensure" /\ io'.write

\* C15 as claimed: every transition is followed by a pause, and the pause after a
\* transition to ON is longer than the pause after a transition to OFF.
C15_LongerPauseAfterOn ==
    [][WriteStep =>
          /\ now' > now
          /\ io'.request = "ON" => now' - now > DebouncePause(FALSE)]_vars

\* C15 amended: every transition made by a successful write is followed by a pause
\* of 450 s, the same after ON and after OFF, and no write is made sooner than 450 s
\* after the write before it.
C15_SamePauseAfterEveryTransition ==
    [][WriteStep =>
          /\ now' - now = 450
          /\ thisPowerSession.powerOnTime # Epoch =>
                now >= thisPowerSession.powerOnTime + 450
          /\ thisPowerSession.powerOffTime # Epoch =>
                now >= thisPowerSession.powerOffTime + 450]_vars

\* the plug was switched on, after having been switched off in an earlier iteration,
\* and the pause was taken
C15_Witness ==
    /\ pc = "fetch"
    /\ io.write
    /\ io.request = "ON"
    /\ thisPowerSession.powerOffTime # Epoch
    /\ thisPowerSession.powerOnTime > thisPowerSession.powerOffTime
    /\ now = thisPowerSession.powerOnTime + 450

\* how far into an iteration a position of the loop is
Rank(p) ==
    CASE p = "top" -> 0 [] p = "trigger" -> 1 [] p = "evaluate" -> 2
      [] p = "ensure" -> 3 [] p = "fetch" -> 4 [] OTHER -> 5

\* C16: whatever the sensor, the actuator and the provider answer, the loop is never
\* stuck: at the head of the loop the next iteration can start (up to the iterations
\* the model follows), anywhere else the iteration has a next step, and every step
\* either moves on inside the iteration or returns to the head of the loop.
C16_LoopGoesOn ==
    /\ [](IF pc = "top" THEN iter = MaxIter \/ ENABLED LoopHead
          ELSE Rank(pc) \in 1 .. 4 /\ ENABLED Next)
    /\ [][pc' = "top" \/ Rank(pc') > Rank(pc)]_vars

\* after a failed fetch and iterations without a reading, the loop is at the head of
\* the next iteration
C16_Witness ==
    /\ pc = "top"
    /\ iter = MaxIter
    /\ currentTemperature = None
    /\ fetchFailed
    /\ priceState = 0

\* the days of the response that the fetch of this step accepted by their length
AcceptedDays(id) ==
    IF Parsed[id].kind # "priceInfo" THEN {}
    ELSE IF Parsed[id].class = "both" THEN {1, 2}
    ELSE IF Parsed[id].class = "today" THEN {1}
    ELSE {}

\* the well-formed entries of day idx of a response
WellFormed(id, idx) ==
    LET items == IF idx = 1 THEN ResponseOf[id].today.items
                 ELSE ResponseOf[id].tomorrow.items
    IN  {i \in 1 .. Len(items) : items[i].kind = "ok"}

EntryOf(id, idx, i) ==
    IF idx = 1 THEN ResponseOf[id].today.items[i] ELSE ResponseOf[id].tomorrow.items[i]

\* C17: a fetch that writes a slot leaves state 2 only if it wrote at least one slot
\* of the today row and at least one slot of the tomorrow row, and leaves state 1 if
\* it wrote slots of the today row only.
C17_BothDaysForState2 ==
    [][(FetchStep /\ AcceptedDays(response') # {}) =>
          LET wrote == Parsed[response'].writes.wrote
          IN  /\ (wrote[1] \/ wrote[2]) =>
                    (priceState' = 2 => wrote[1] /\ wrote[2])
              /\ (wrote[1] /\ ~wrote[2]) => priceState' = 1]_vars

\* an ingestion that wrote no slot of the today row has left state 2 over a today row
\* that holds no price
C17_Witness ==
    /\ IterationDone
    /\ response = "todayBad"
    /\ fetchResult = "ingested"
    /\ priceState = 2
    /\ today = ZeroRow
    /\ tomorrow # ZeroRow

\* C18: a fetch of a payload of accepted day lengths writes every well-formed entry of
\* the accepted days to its slot, whatever malformed entries stand before or after
\* it; if the payload has no well-formed entry, both rows, the state and lastPriceRun
\* are unchanged.
C18_MalformedEntriesSkipped ==
    [][(FetchStep /\ AcceptedDays(response') # {}) =>
          /\ \A idx \in AcceptedDays(response') : \A i \in WellFormed(response', idx) :
                currentEnergyPrices'[idx][EntryOf(response', idx, i).hour]
                    = EntryOf(response', idx, i).total
          /\ (\A idx \in AcceptedDays(response') : WellFormed(response', idx) = {}) =>
                UNCHANGED <<currentEnergyPrices, priceState, lastPriceRun>>]_vars

\* an entry whose startsAt is no ISO date has ended the ingestion: the entries of the
\* tomorrow row before it are written, those after it are not
C18_Witness ==
    /\ IterationDone
    /\ response = "badIso"
    /\ fetchResult = "failed"
    /\ priceState = 2
    /\ tomorrow[0] = Falling(0)
    /\ tomorrow[1] = Falling(1)
    /\ \A h \in 2 .. 23 : tomorrow[h] = 0

\* C19: after every successful ingestion lastPriceRun is the instant of the ingestion,
\* and its calendar date is the date on which the prices were fetched, also when the
\* clock has advanced between the start of the iteration and the fetch.
C19_LastRunIsIngestionInstant ==
    [][(FetchStep /\ fetchResult' = "ingested") =>
          /\ lastPriceRun' = now
          /\ DateOf(lastPriceRun') = DateOf(now)]_vars

\* an ingestion made after midnight in an iteration that began before midnight: the
\* date of lastPriceRun is the day before the day of the fetch
C19_Witness ==
    /\ IterationDone
    /\ fetchResult = "ingested"
    /\ io.write
    /\ lastPriceRun = currentTime
    /\ DateOf(lastPriceRun) < DateOf(now)

\* the state has left 0 and the today row holds the prices of the response
Recovered ==
    /\ priceState \in {1, 2}
    /\ response \in GoodResponses
    /\ \A i \in 1 .. 24 : today[i - 1] = ResponseOf[response].today.items[i].total

\* C20: when the sensor answers every reading and every response has 24 well-formed
\* entries for today, a loop that is in state 0, at startup or after an anomaly,
\* eventually reaches state 1 or 2 with the fetched prices in the today row, and
\* from then on the state is never 0 again.
C20_RecoversFromUninitialized ==
    /\ (priceState = 0) ~> Recovered
    /\ <>[](priceState \in {1, 2})

\* the first iteration after an anomaly: the rows of the earlier ingestion are
\* replaced by the fetched today, and the state is 1
C20_Witness ==
    /\ IterationDone
    /\ iter = 1
    /\ skipSleep = 2
    /\ response = "todayOnly"
    /\ priceState = 1
    /\ today = RowOf("falling")
    /\ Recovered

\* C21: whenever a directive has been evaluated while the state is 1 or 2, the today
\* row holds the prices the provider gave for the calendar date of the iteration.
C21_TodayRowIsOfToday ==
    (pc = "ensure" /\ priceState \in {1, 2}) => rowDate[1] = currentDate

\* tomorrow's prices were not obtained before midnight: the state is still 1 on the
\* next day, nothing was rotated, and the directive has been evaluated on the prices
\* of the day before
C21_Witness ==
    /\ pc = "ensure"
    /\ priceState = 1
    /\ ~io.rotated
    /\ today # ZeroRow
    /\ rowDate = <<currentDate - 1, -1>>
    /\ ladder.cur = today[currentHour]

\* the ON instant the session records has been priced: the last transition the
\* session recorded is the OFF that followed it, and line 166 reported its cost
Billed(session) ==
    /\ session.powerOnTime # Epoch
    /\ session.powerOffTime > session.powerOnTime

\* C22: a cost report never prices a power-on instant that an earlier report has
\* priced: between two reports the session has recorded a new ON transition.
C22_OnInstantBilledOnce ==
    [][(pc = "ensure" /\ io'.report) => ~Billed(thisPowerSession)]_vars

\* switched on by the first iteration, off by the second (first report); the plug is
\* then switched on by someone else, and the third iteration switches it off and
\* reports a cost from the ON instant of the first iteration again
C22_Witness ==
    /\ pc = "fetch"
    /\ iter = 3
    /\ io.report
    /\ thisPowerSession.powerOnTime = StartTime + LoopSleep
    /\ thisPowerSession.powerOffTime =
          thisPowerSession.powerOnTime + 2 * (DebounceSleep + LoopSleep)

====
